---- MODULE Spec2Model ----
(***************************************************************************)
(* A model of wotpy.wot.exposed.thing.ExposedThing: the handler registry,  *)
(* the property-value store, the read / write / invoke coroutines, the     *)
(* event stream (an rx Subject) with its filtered subscriptions, and the   *)
(* add / remove operations on the Thing's interactions.                    *)
(*                                                                         *)
(* The Thing (find_interaction / add_interaction / remove_interaction) and *)
(* the Interaction classes are not part of the source at hand; they are    *)
(* modelled from the specification: an interaction's identity is its name, *)
(* unique within the Thing.                                                *)
(***************************************************************************)
EXTENDS Naturals, Sequences, FiniteSets

\* ------------------------------------------------------------------ bounds
MaxCalls == 2
MaxEvents == 2
MaxSeedEvents == 3
MaxSubs == 2

\* ------------------------------------------------------------ value domains
Names == {"p", "q"}
Values == {"v1", "v2"}
None == "None"
UserHandlers == {"h1", "h2"}
\* A handler function whose truth value is false: a callable object with
\* __len__() == 0 or __bool__() false.
FalsyHandlers == {"h0"}
NoHandler == "nohandler"
Unknown == "unknown"

\* ExposedThing.HandlerKeys
RETRIEVE_PROPERTY == "retrieve_property"
UPDATE_PROPERTY == "update_property"
INVOKE_ACTION == "invoke_action"
OBSERVE == "observe"
HandlerKeys == {RETRIEVE_PROPERTY, UPDATE_PROPERTY, INVOKE_ACTION, OBSERVE}

\* The bound methods seeded as global handlers by __init__.
DefaultHandler(handler_type) == "default_" \o handler_type

\* _handlers_global as __init__ leaves it: a default for every key but
\* OBSERVE, which gets no entry.
InitHandlersGlobal ==
    [k \in {RETRIEVE_PROPERTY, UPDATE_PROPERTY, INVOKE_ACTION} |-> DefaultHandler(k)]

\* _handlers as __init__ leaves it: an empty table of overrides for every
\* key but OBSERVE (an interaction without an override reads NoHandler).
InitHandlers ==
    [k \in {RETRIEVE_PROPERTY, UPDATE_PROPERTY, INVOKE_ACTION} |->
        [n \in Names |-> NoHandler]]

DefaultHandlers == {InitHandlersGlobal[k] : k \in DOMAIN InitHandlersGlobal}
Handlers == DefaultHandlers \cup UserHandlers \cup FalsyHandlers

\* DefaultThingEvent
PROPERTY_CHANGE == "propertychange"
ACTION_INVOCATION == "actioninvocation"
DESCRIPTION_CHANGE == "descriptionchange"

\* The errors the facade raises, named as the specification names them.
NotFoundError == "ValueError: Interaction not found"
NotWritableError == "TypeError: Property is non-writable"
UndefinedActionHandlerError == "Exception: Undefined action handler"
ArgumentsError == "TypeError: takes 1 positional argument"
AttributeError == "AttributeError: no such attribute"
KeyError == "KeyError"
UnknownEventError == "Exception: Unknown event"
UnknownEventValueError == "ValueError: Unknown event"
UnknownPropertyError == "Exception: Unknown property"
NotObservableError == "Exception: Property is not observable"
\* What a user handler may resolve its future with (a read or an invoke;
\* the result of a write handler is not looked at) or fail it with.
UserResults == {"r1"}
UserErrors == {"HandlerError"}

\* ------------------------------------------------------------------- state
VARIABLES
    interactions,    \* the Thing's interactions, by name
    propertyValues,  \* _interaction_states[PROPERTY_VALUES]
    handlersGlobal,  \* _handlers_global
    handlers,        \* _handlers
    events,          \* everything pushed onto _events_stream, in order
    subs,            \* the observables handed out and their subscribers
    calls,           \* the read / write / invoke coroutines started so far
    ioloop,          \* coroutines whose awaited future is done, FIFO
    app,             \* what the application passes in: its handler functions,
                     \* the names it sets them for, the values it writes, the
                     \* arguments it invokes with
    lastGlobal,      \* history: the handler of the last global set, per kind
    lastOverride,    \* history: the handler of the last override set
    lastWrite,       \* history: the value last written to a property through
                     \* the default handler, Unknown once written otherwise
    settled,         \* history: the write and invoke calls whose handler's
                     \* future succeeded, in the order in which it did
    seeded,          \* history: the initial value add_property gave a
                     \* property, Unknown once a write handler ran for it
    raised           \* what the last set_*_handler or emit_event call
                     \* raised, None when it returned

vars == <<interactions, propertyValues, handlersGlobal, handlers, events,
          subs, calls, ioloop, app, lastGlobal, lastOverride, lastWrite,
          settled, seeded, raised>>

\* ------------------------------------------------------ the Thing (registry)
Absent == [kind |-> "none", writable |-> FALSE, observable |-> FALSE]
Property(writable, observable) ==
    [kind |-> "property", writable |-> writable, observable |-> observable]
Action == [kind |-> "action", writable |-> FALSE, observable |-> FALSE]
Event == [kind |-> "event", writable |-> FALSE, observable |-> FALSE]
Interactions ==
    {Absent, Action, Event} \cup {Property(w, o) : w \in BOOLEAN, o \in BOOLEAN}

\* Thing.find_interaction(name) is truthy
Defined(name) == interactions[name].kind # "none"

\* The Things an ExposedThing is constructed over.
InitThings ==
    { [n \in Names |-> Absent],
      [n \in Names |-> IF n = "p" THEN Property(TRUE, TRUE) ELSE Property(TRUE, FALSE)],
      [n \in Names |-> IF n = "p" THEN Property(FALSE, TRUE) ELSE Action],
      [n \in Names |-> IF n = "p" THEN Event ELSE Property(TRUE, TRUE)] }

\* Mutant of DescriptionOf: the description is missing its last interaction.
DescriptionOfStale(reg) ==
    {<<n, reg[n].kind>> : n \in {m \in Names : reg[m].kind # "none" /\ Defined(m)}}

\* ThingDescription.from_thing(thing).to_dict(): the interactions defined
DescriptionOf(reg) == {<<n, reg[n].kind>> : n \in {m \in Names : reg[m].kind # "none"}}

\* Mutant of FindInteractionRaises: a missing interaction is let through.
FindInteractionNeverRaises(name) == FALSE

\* _find_interaction raises ValueError("Interaction not found")
FindInteractionRaises(name) == ~Defined(name)

\* -------------------------------------------------------- handler registry
\* _set_handler: the tables after the call. The global table is a dict
\* assigned by key, so a key it does not hold yet (OBSERVE) is added to it.
SetHandlerGlobal(handler_type, handler, interaction) ==
    IF interaction = None \/ handler_type \notin DOMAIN handlers
    THEN [k \in DOMAIN handlersGlobal \cup {handler_type} |->
             IF k = handler_type THEN handler ELSE handlersGlobal[k]]
    ELSE handlersGlobal

\* Mutant of SetHandlerOverride: a global set also overwrites the overrides.
SetHandlerOverrideAll(handler_type, handler, interaction) ==
    IF interaction = None \/ handler_type \notin DOMAIN handlers
    THEN [handlers EXCEPT ![handler_type] = [n \in Names |-> handler]]
    ELSE [handlers EXCEPT ![handler_type][interaction] = handler]

SetHandlerOverride(handler_type, handler, interaction) ==
    IF interaction = None \/ handler_type \notin DOMAIN handlers
    THEN handlers
    ELSE [handlers EXCEPT ![handler_type][interaction] = handler]

\* bool(handler), as the "or" of _get_handler tests it: None (a key that
\* is not in the table, or None stored as a handler) and a handler whose
\* truth value is false are falsy.
Truthy(handler) == handler \notin {NoHandler, None} \cup FalsyHandlers

\* _get_handler: "interaction_handler or global": the override is used when
\* it is truthy, the global handler otherwise, also when an override is in
\* the table and falsy. A key with neither a truthy override nor a global
\* entry (OBSERVE, until a global one is set for it) raises KeyError.
GetHandler(handler_type, interaction) ==
    LET interaction_handler ==
            IF handler_type \in DOMAIN handlers /\ interaction \in Names
            THEN handlers[handler_type][interaction]
            ELSE NoHandler
    IN  IF Truthy(interaction_handler)
        THEN interaction_handler
        ELSE IF handler_type \in DOMAIN handlersGlobal
        THEN handlersGlobal[handler_type]
        ELSE KeyError

\* _get_property_value: dict.get(prop, None); a key never set reads as None,
\* so the store is a total function whose unset keys hold None.
GetPropertyValue(prop) == propertyValues[prop]

\* Mutant of SetPropertyValue: the value is stored for every property.
SetPropertyValueAll(prop, value) == [n \in Names |-> value]

\* _set_property_value
SetPropertyValue(prop, value) == [propertyValues EXCEPT ![prop] = value]

\* --------------------------------------------------------------- the stream
\* Mutant of Matches: the property-change filter does not look at the name
\* of the property.
MatchesAnyProperty(s, item) ==
    CASE s.filter = "event" -> item.name = s.name
      [] s.filter = "property_change" -> item.name = PROPERTY_CHANGE
      [] s.filter = "td_change" -> item.name = DESCRIPTION_CHANGE
      [] OTHER -> FALSE

\* The filter of an observable, applied to an emitted event.
Matches(s, item) ==
    CASE s.filter = "event" -> item.name = s.name
      [] s.filter = "property_change" ->
            item.name = PROPERTY_CHANGE /\ item.data.name = s.name
      [] s.filter = "td_change" -> item.name = DESCRIPTION_CHANGE
      [] OTHER -> FALSE

\* Mutant of Deliver: an event is handed to the first attached subscriber
\* only.
DeliverToFirst(s, items) ==
    IF s.state = "attached"
       /\ \A j \in DOMAIN subs :
             (subs[j].state = "attached" /\ subs[j] # s)
             => \E i \in DOMAIN subs : i < j /\ subs[i] = s
    THEN [s EXCEPT !.received =
            @ \o SelectSeq([i \in 1..Len(items) |-> Len(events) + i],
                           LAMBDA k : Matches(s, items[k - Len(events)]))]
    ELSE s

\* Subject.on_next, once per item: the event is appended to the stream and
\* handed to every attached subscriber whose filter matches; a subscriber's
\* received list holds the positions of its events in the stream.
Deliver(s, items) ==
    IF s.state = "attached"
    THEN [s EXCEPT !.received =
            @ \o SelectSeq([i \in 1..Len(items) |-> Len(events) + i],
                           LAMBDA k : Matches(s, items[k - Len(events)]))]
    ELSE s

PublishAll(items) ==
    /\ events' = events \o items
    /\ subs' = [i \in DOMAIN subs |-> Deliver(subs[i], items)]

Publish(item) == PublishAll(<<item>>)

\* Calls still suspended may each publish one event when they resume.
Reserved == Cardinality({c \in DOMAIN calls : calls[c].status = "suspended"
                                               /\ calls[c].op # "read"})
CanPublish == Len(events) + Reserved < app.events

\* An application: the handler functions it installs, the names it installs
\* them for (None: globally), the values it writes, the argument lists it
\* invokes with, the number of observables it asks for at most and the
\* number of events its calls publish at most.
App(hs, targets, values, args, observers, published) ==
    [handlers |-> hs, targets |-> targets, values |-> values, args |-> args,
     observers |-> observers, events |-> published]

\* The positional arguments of an invoke_action call: none, or one.
ArgLists == {<<>>, <<"v1">>}

AnyApp ==
    App(UserHandlers \cup FalsyHandlers, Names \cup {None}, Values, ArgLists, MaxSubs, MaxEvents)
\* The state __init__ leaves, over a Thing of `things`, for an application
\* of `apps`.
InitWith(things, apps) ==
    /\ interactions \in things
    /\ app \in apps
    /\ propertyValues = [n \in Names |-> None]
    /\ handlersGlobal = InitHandlersGlobal
    /\ handlers = InitHandlers
    /\ events = <<>>
    /\ subs = <<>>
    /\ calls = <<>>
    /\ ioloop = <<>>
    /\ lastGlobal = [k \in DOMAIN InitHandlersGlobal |-> NoHandler]
    /\ lastOverride = [k \in DOMAIN InitHandlers |-> [n \in Names |-> NoHandler]]
    /\ lastWrite = [n \in Names |-> Unknown]
    /\ settled = <<>>
    /\ seeded = [n \in Names |-> Unknown]
    /\ raised = None

Init == InitWith(InitThings, {AnyApp})

\* ------------------------------------------------------- set-handler calls
\* The body shared by set_action_handler, set_property_read_handler and
\* set_property_write_handler: _find_interaction when a name is given (a
\* ValueError leaves everything as it was), then _set_handler.
SetHandlerCall(handler_type, handler, name) ==
    /\ IF name # None /\ FindInteractionRaises(name)
       THEN /\ raised' = NotFoundError
            /\ UNCHANGED <<handlersGlobal, handlers, lastGlobal, lastOverride>>
       ELSE /\ raised' = None
            /\ handlersGlobal' = SetHandlerGlobal(handler_type, handler, name)
            /\ handlers' = SetHandlerOverride(handler_type, handler, name)
            /\ lastGlobal' = IF name = None
                             THEN [lastGlobal EXCEPT ![handler_type] = handler]
                             ELSE lastGlobal
            /\ lastOverride' = IF name = None
                               THEN lastOverride
                               ELSE [lastOverride EXCEPT ![handler_type][name] = handler]
    /\ UNCHANGED <<interactions, propertyValues, events, subs, calls, ioloop, app,
                   lastWrite, settled, seeded>>

SetActionHandler ==
    \E h \in app.handlers, n \in app.targets :
        SetHandlerCall(INVOKE_ACTION, h, n)

SetPropertyReadHandler ==
    \E h \in app.handlers, n \in app.targets :
        SetHandlerCall(RETRIEVE_PROPERTY, h, n)

SetPropertyWriteHandler ==
    \E h \in app.handlers, n \in app.targets :
        SetHandlerCall(UPDATE_PROPERTY, h, n)

\* ------------------------------------------------------ add / remove calls
TDChangeAdd(td_change_type, name, data, reg) ==
    [name |-> DESCRIPTION_CHANGE,
     data |-> [td_change_type |-> td_change_type, method |-> "add", name |-> name,
               data |-> data, description |-> DescriptionOf(reg)]]

TDChangeRemove(td_change_type, name) ==
    [name |-> DESCRIPTION_CHANGE,
     data |-> [td_change_type |-> td_change_type, method |-> "remove", name |-> name]]

\* Thing.add_interaction; names are unique within a Thing, so an interaction
\* is added under a name that is free.
AddInteraction(name, interaction) == [interactions EXCEPT ![name] = interaction]

\* Thing.remove_interaction(name): by name alone, nothing to do when absent
RemoveInteraction(name) == [interactions EXCEPT ![name] = Absent]

\* Mutant of SeedPropertyValue: add_property keeps a value already stored
\* under the name (dict.setdefault in place of the assignment).
SeedPropertyValueKeeping(name, value) ==
    IF propertyValues[name] = None
    THEN SetPropertyValue(name, value)
    ELSE propertyValues

\* add_property: self._set_property_value(prop, property_init.value)
SeedPropertyValue(name, value) == SetPropertyValue(name, value)

AddProperty ==
    \E name \in Names, w \in BOOLEAN, o \in BOOLEAN, value \in Values :
        /\ ~Defined(name)
        /\ CanPublish
        /\ interactions' = AddInteraction(name, Property(w, o))
        /\ propertyValues' = SeedPropertyValue(name, value)
        /\ Publish(TDChangeAdd("property", name,
                               [writable |-> w, observable |-> o, value |-> value],
                               interactions'))
        /\ lastWrite' = [lastWrite EXCEPT ![name] = Unknown]
        /\ seeded' = [seeded EXCEPT ![name] = value]
        /\ UNCHANGED <<handlersGlobal, handlers, calls, ioloop, app,
                       lastGlobal, lastOverride, settled, raised>>

AddAction ==
    \E name \in Names :
        /\ ~Defined(name)
        /\ CanPublish
        /\ interactions' = AddInteraction(name, Action)
        /\ Publish(TDChangeAdd("action", name, [kind |-> "action"], interactions'))
        /\ UNCHANGED <<propertyValues, handlersGlobal, handlers, calls, ioloop,
                       app, lastGlobal, lastOverride, lastWrite, settled, seeded, raised>>

AddEvent ==
    \E name \in Names :
        /\ ~Defined(name)
        /\ CanPublish
        /\ interactions' = AddInteraction(name, Event)
        /\ Publish(TDChangeAdd("event", name, [kind |-> "event"], interactions'))
        /\ UNCHANGED <<propertyValues, handlersGlobal, handlers, calls, ioloop,
                       app, lastGlobal, lastOverride, lastWrite, settled, seeded, raised>>

\* Mutant of RemoveCall: the event is published only when the name is
\* defined and of the kind of the operation.
RemoveCallChecked(op, td_change_type, name) ==
    /\ CanPublish
    /\ interactions[name].kind = td_change_type
    /\ interactions' = RemoveInteraction(name)
    /\ Publish(TDChangeRemove(td_change_type, name))
    /\ UNCHANGED <<propertyValues, handlersGlobal, handlers, calls, ioloop,
                   app, lastGlobal, lastOverride, lastWrite, settled, seeded, raised>>

\* Mutant of RemoveCall: the removal also drops the overrides and the value
\* stored for the name.
RemoveCallClearing(op, td_change_type, name) ==
    /\ CanPublish
    /\ interactions' = RemoveInteraction(name)
    /\ Publish(TDChangeRemove(td_change_type, name))
    /\ handlers' = [k \in DOMAIN handlers |-> [handlers[k] EXCEPT ![name] = NoHandler]]
    /\ propertyValues' = [propertyValues EXCEPT ![name] = None]
    /\ UNCHANGED <<handlersGlobal, calls, ioloop,
                   app, lastGlobal, lastOverride, lastWrite, settled, seeded, raised>>

\* The body shared by remove_property, remove_action and remove_event.
RemoveCall(op, td_change_type, name) ==
    /\ CanPublish
    /\ interactions' = RemoveInteraction(name)
    /\ Publish(TDChangeRemove(td_change_type, name))
    /\ UNCHANGED <<propertyValues, handlersGlobal, handlers, calls, ioloop,
                   app, lastGlobal, lastOverride, lastWrite, settled, seeded, raised>>

RemoveProperty == \E name \in Names : RemoveCall("remove_property", "property", name)
RemoveAction == \E name \in Names : RemoveCall("remove_action", "action", name)
RemoveEvent == \E name \in Names : RemoveCall("remove_event", "event", name)

\* emit_event
EmitEvent ==
    \E event_name \in Names, payload \in Values :
        IF ~Defined(event_name)
        THEN /\ raised' = UnknownEventValueError
             /\ UNCHANGED <<interactions, propertyValues, handlersGlobal, handlers,
                            events, subs, calls, ioloop, app, lastGlobal, lastOverride,
                            lastWrite, settled, seeded>>
        ELSE /\ CanPublish
             /\ Publish([name |-> event_name, data |-> payload])
             /\ raised' = None
             /\ UNCHANGED <<interactions, propertyValues, handlersGlobal, handlers,
                            calls, ioloop, app, lastGlobal, lastOverride, lastWrite,
                            settled, seeded>>

\* --------------------------------------------- read / write / invoke calls
\* A coroutine started by read_property, write_property or invoke_action.
\* handler: the handler resolved (NoHandler when a check failed before);
\* invoked: how many times it was called; hstate / hval: the state of the
\* future it returned; status / result: the state of the caller's future;
\* evIdx: the position in the stream of the event the call published (0: none).
NewCall(op, name, arg) ==
    [op |-> op, name |-> name, arg |-> arg, handler |-> NoHandler, invoked |-> 0,
     hstate |-> "none", hval |-> None, status |-> "rejected", result |-> None,
     evIdx |-> 0]

\* An exception raised in the coroutine before the handler is called.
Raised(call, error) == [call EXCEPT !.status = "rejected", !.result = error]

\* Mutant of Invoked: the handler is called a second time.
InvokedTwice(call, handler, hstate, hval) ==
    [call EXCEPT !.handler = handler, !.invoked = @ + 2, !.hstate = hstate,
                 !.hval = hval, !.status = "suspended"]

\* "yield handler(...)": the handler is called once and returns a future.
Invoked(call, handler, hstate, hval) ==
    [call EXCEPT !.handler = handler, !.invoked = @ + 1, !.hstate = hstate,
                 !.hval = hval, !.status = "suspended"]

\* The futures a user handler may return: pending, resolved or failed.
UserOutcomes(results) ==
    {<<"pending", None>>} \cup {<<"ok", r>> : r \in results}
                          \cup {<<"err", e>> : e \in UserErrors}

\* _default_retrieve_property_handler: its own _find_interaction raises for
\* a name that is not defined; otherwise a future resolved with the stored
\* value
DefaultRetrieveOutcome(property_name) ==
    IF FindInteractionRaises(property_name)
    THEN <<"err", NotFoundError>>
    ELSE <<"ok", GetPropertyValue(property_name)>>

\* Mutant of DefaultUpdateStore: a value already stored is kept.
DefaultUpdateStoreOnce(property_name, value) ==
    IF propertyValues[property_name] = None
    THEN SetPropertyValue(property_name, value)
    ELSE propertyValues

\* Mutant of DefaultUpdateStore: the handler resolves without storing.
DefaultUpdateStoreSkipped(property_name, value) == propertyValues

\* _default_update_property_handler: its own _find_interaction raises for a
\* name that is not defined, and nothing is stored; otherwise the value is
\* stored and the future is resolved with None
DefaultUpdateOutcome(property_name) ==
    IF FindInteractionRaises(property_name)
    THEN <<"err", NotFoundError>>
    ELSE <<"ok", None>>

DefaultUpdateStore(property_name, value) ==
    IF FindInteractionRaises(property_name)
    THEN propertyValues
    ELSE SetPropertyValue(property_name, value)

\* _default_invoke_action_handler(self): takes no argument, so a call with
\* arguments raises TypeError; otherwise a future failed with "Undefined
\* action handler".
DefaultInvokeOutcome(args) ==
    IF Len(args) > 0
    THEN <<"err", ArgumentsError>>
    ELSE <<"err", UndefinedActionHandlerError>>

\* Mutant of EventsAfterYield: the event is published whether the handler's
\* future succeeded or not.
EventsAfterYieldAnyway(call) ==
    CASE call.op = "write" ->
            <<[name |-> PROPERTY_CHANGE,
               data |-> [name |-> call.name, value |-> call.arg]]>>
      [] call.op = "invoke" ->
            <<[name |-> ACTION_INVOCATION,
               data |-> [action_name |-> call.name, return_value |-> call.hval]]>>
      [] OTHER -> <<>>

\* The events the coroutine publishes once the handler's future is done:
\* write_property lines 205-206, invoke_action lines 223-225.
EventsAfterYield(call) ==
    IF call.hstate # "ok"
    THEN <<>>
    ELSE CASE call.op = "write" ->
                <<[name |-> PROPERTY_CHANGE,
                   data |-> [name |-> call.name, value |-> call.arg]]>>
           [] call.op = "invoke" ->
                <<[name |-> ACTION_INVOCATION,
                   data |-> [action_name |-> call.name, return_value |-> call.hval]]>>
           [] OTHER -> <<>>

\* Mutant of AfterYield: invoke_action does not return the handler's result.
AfterYieldNoResult(call) ==
    IF call.hstate = "err"
    THEN [call EXCEPT !.status = "rejected", !.result = call.hval]
    ELSE [call EXCEPT !.status = "resolved",
                      !.result = IF call.op = "read" THEN call.hval ELSE None,
                      !.evIdx = IF Len(EventsAfterYield(call)) > 0
                                THEN Len(events) + 1 ELSE 0]

\* The caller's future once the handler's future is done: the handler's
\* error is re-raised at the yield; otherwise the value returned.
AfterYield(call) ==
    IF call.hstate = "err"
    THEN [call EXCEPT !.status = "rejected", !.result = call.hval]
    ELSE [call EXCEPT !.status = "resolved",
                      !.result = IF call.op = "write" THEN None ELSE call.hval,
                      !.evIdx = IF Len(EventsAfterYield(call)) > 0
                                THEN Len(events) + 1 ELSE 0]

\* The coroutine runs from its start up to the yield and, when the future
\* returned is done already, on to its end; `store` is the property-value
\* store after the handler ran.
Run(call, store) ==
    /\ propertyValues' = store
    /\ IF call.hstate = "pending"
       THEN /\ calls' = Append(calls, call)
            /\ UNCHANGED <<events, subs, settled, raised>>
       ELSE /\ calls' = Append(calls, AfterYield(call))
            /\ PublishAll(EventsAfterYield(call))
            /\ settled' = IF EventsAfterYield(call) # <<>>
                          THEN Append(settled, Len(calls) + 1) ELSE settled
    /\ lastWrite' = IF call.op = "write"
                    THEN [lastWrite EXCEPT ![call.name] =
                            IF call.handler = DefaultHandler(UPDATE_PROPERTY)
                            THEN call.arg ELSE Unknown]
                    ELSE lastWrite
    /\ seeded' = IF call.op = "write"
                 THEN [seeded EXCEPT ![call.name] = Unknown]
                 ELSE seeded
    /\ UNCHANGED <<interactions, handlersGlobal, handlers, ioloop, app,
                   lastGlobal, lastOverride, raised>>

Fail(call) ==
    /\ calls' = Append(calls, call)
    /\ UNCHANGED <<interactions, propertyValues, handlersGlobal, handlers, events,
                   subs, ioloop, app, lastGlobal, lastOverride, lastWrite, settled, seeded, raised>>

\* read_property
ReadCall(name) ==
    LET call == NewCall("read", name, None)
        handler == GetHandler(RETRIEVE_PROPERTY, name)
    IN  IF FindInteractionRaises(name)
        THEN Fail(Raised(call, NotFoundError))
        ELSE IF handler = DefaultHandler(RETRIEVE_PROPERTY)
        THEN LET o == DefaultRetrieveOutcome(name)
             IN Run(Invoked(call, handler, o[1], o[2]), propertyValues)
        ELSE \E o \in UserOutcomes(UserResults) :
                Run(Invoked(call, handler, o[1], o[2]), propertyValues)

ReadProperty ==
    /\ Len(calls) < MaxCalls
    /\ \E name \in Names : ReadCall(name)

\* Mutant of WriteChecks: the writable flag is not checked.
WriteChecksNoWritable(name) ==
    IF FindInteractionRaises(name) THEN NotFoundError
    ELSE IF interactions[name].kind # "property" THEN AttributeError
    ELSE None

\* write_property, up to the handler's resolution: the error raised, or None.
\* Only a Property has a writable attribute.
WriteChecks(name) ==
    IF FindInteractionRaises(name) THEN NotFoundError
    ELSE IF interactions[name].kind # "property" THEN AttributeError
    ELSE IF ~interactions[name].writable THEN NotWritableError
    ELSE None

\* write_property
WriteCall(name, value) ==
    LET call == NewCall("write", name, value)
        handler == GetHandler(UPDATE_PROPERTY, name)
    IN  IF WriteChecks(name) # None
        THEN Fail(Raised(call, WriteChecks(name)))
        ELSE /\ CanPublish
             /\ IF handler = DefaultHandler(UPDATE_PROPERTY)
                THEN LET o == DefaultUpdateOutcome(name)
                     IN Run(Invoked(call, handler, o[1], o[2]),
                            DefaultUpdateStore(name, value))
                ELSE \E o \in UserOutcomes({None}) :
                        Run(Invoked(call, handler, o[1], o[2]), propertyValues)

WriteProperty ==
    /\ Len(calls) < MaxCalls
    /\ \E name \in Names, value \in app.values : WriteCall(name, value)

\* invoke_action
InvokeCall(name, args) ==
    LET call == NewCall("invoke", name, args)
        handler == GetHandler(INVOKE_ACTION, name)
    IN  IF FindInteractionRaises(name)
        THEN Fail(Raised(call, NotFoundError))
        ELSE /\ CanPublish
             /\ IF handler = DefaultHandler(INVOKE_ACTION)
                THEN LET o == DefaultInvokeOutcome(args)
                     IN Run(Invoked(call, handler, o[1], o[2]), propertyValues)
                ELSE \E o \in UserOutcomes(UserResults) :
                        Run(Invoked(call, handler, o[1], o[2]), propertyValues)

InvokeAction ==
    /\ Len(calls) < MaxCalls
    /\ \E name \in Names, args \in app.args : InvokeCall(name, args)

\* The pending future of a user handler is resolved or failed; the coroutine
\* waiting on it is scheduled on the IOLoop.
FutureSettle ==
    \E c \in DOMAIN calls :
        /\ calls[c].status = "suspended"
        /\ calls[c].hstate = "pending"
        /\ \E o \in UserOutcomes(IF calls[c].op = "write" THEN {None} ELSE UserResults) :
              /\ o[1] # "pending"
              /\ calls' = [calls EXCEPT ![c].hstate = o[1], ![c].hval = o[2]]
              /\ settled' = IF o[1] = "ok" /\ calls[c].op # "read"
                            THEN Append(settled, c) ELSE settled
        /\ ioloop' = Append(ioloop, c)
        /\ UNCHANGED <<interactions, propertyValues, handlersGlobal, handlers,
                       events, subs, app, lastGlobal, lastOverride, lastWrite, seeded, raised>>

\* Mutant of NextCallback: the callback scheduled last runs first.
NextCallbackLast(loop) == Len(loop)

\* IOLoop callbacks run in the order in which they were scheduled: the
\* position in the queue of the one that runs next.
NextCallback(loop) == 1

\* The IOLoop resumes the coroutine scheduled first, which runs to its end.
Resume ==
    /\ ioloop # <<>>
    /\ LET k == NextCallback(ioloop)
           c == ioloop[k]
       IN /\ calls' = [calls EXCEPT ![c] = AfterYield(calls[c])]
          /\ PublishAll(EventsAfterYield(calls[c]))
          /\ ioloop' = SubSeq(ioloop, 1, k - 1) \o SubSeq(ioloop, k + 1, Len(ioloop))
    /\ UNCHANGED <<interactions, propertyValues, handlersGlobal, handlers, app,
                   lastGlobal, lastOverride, lastWrite, settled, seeded, raised>>

\* ------------------------------------------------------------ subscriptions
\* An observable handed out by on_event / on_property_change / on_td_change,
\* with the one subscriber it gets. filter "throw" is Observable.throw;
\* state "raised" records a call that raised instead of returning one.
\* attachedAt / detachedAt: the length of the stream when the subscriber was
\* attached / detached (history).
NewObservable(op, filter, name, error) ==
    [op |-> op, filter |-> filter, name |-> name, error |-> error,
     state |-> "created", received |-> <<>>, failed |-> None,
     attachedAt |-> 0, detachedAt |-> 0]

\* Mutant of OnEventObservable: the name is not looked up.
OnEventObservableUnchecked(name) == NewObservable("on_event", "event", name, None)

\* on_event
OnEventObservable(name) ==
    IF FindInteractionRaises(name)
    THEN NewObservable("on_event", "throw", name, UnknownEventError)
    ELSE NewObservable("on_event", "event", name, None)

OnEvent ==
    /\ Len(subs) < MaxSubs
    /\ Len(subs) < app.observers
    /\ \E name \in Names : subs' = Append(subs, OnEventObservable(name))
    /\ UNCHANGED <<interactions, propertyValues, handlersGlobal, handlers, events,
                   calls, ioloop, app, lastGlobal, lastOverride, lastWrite, settled, seeded, raised>>

\* on_property_change; only a Property has an observable attribute, so for
\* an interaction of another kind the call itself raises AttributeError and
\* hands out no observable.
OnPropertyChangeObservable(name) ==
    IF FindInteractionRaises(name)
    THEN NewObservable("on_property_change", "throw", name, UnknownPropertyError)
    ELSE IF interactions[name].kind # "property"
    THEN [NewObservable("on_property_change", "none", name, AttributeError)
            EXCEPT !.state = "raised", !.failed = AttributeError]
    ELSE IF ~interactions[name].observable
    THEN NewObservable("on_property_change", "throw", name, NotObservableError)
    ELSE NewObservable("on_property_change", "property_change", name, None)

OnPropertyChange ==
    /\ Len(subs) < MaxSubs
    /\ Len(subs) < app.observers
    /\ \E name \in Names : subs' = Append(subs, OnPropertyChangeObservable(name))
    /\ UNCHANGED <<interactions, propertyValues, handlersGlobal, handlers, events,
                   calls, ioloop, app, lastGlobal, lastOverride, lastWrite, settled, seeded, raised>>

\* on_td_change
OnTdChange ==
    /\ Len(subs) < MaxSubs
    /\ Len(subs) < app.observers
    /\ subs' = Append(subs, NewObservable("on_td_change", "td_change", None, None))
    /\ UNCHANGED <<interactions, propertyValues, handlersGlobal, handlers, events,
                   calls, ioloop, app, lastGlobal, lastOverride, lastWrite, settled, seeded, raised>>

\* Observable.subscribe: a filter observable attaches its subscriber to the
\* stream; Observable.throw hands it the error at once.
Subscribe ==
    \E i \in DOMAIN subs :
        /\ subs[i].state = "created"
        /\ subs' = [subs EXCEPT ![i] =
                      IF subs[i].filter = "throw"
                      THEN [@ EXCEPT !.state = "errored", !.failed = subs[i].error]
                      ELSE [@ EXCEPT !.state = "attached", !.attachedAt = Len(events)]]
        /\ UNCHANGED <<interactions, propertyValues, handlersGlobal, handlers,
                       events, calls, ioloop, app, lastGlobal, lastOverride, lastWrite, settled, seeded, raised>>

\* Disposing of the subscription detaches the subscriber.
Unsubscribe ==
    \E i \in DOMAIN subs :
        /\ subs[i].state = "attached"
        /\ subs' = [subs EXCEPT ![i].state = "disposed",
                                 ![i].detachedAt = Len(events)]
        /\ UNCHANGED <<interactions, propertyValues, handlersGlobal, handlers,
                       events, calls, ioloop, app, lastGlobal, lastOverride, lastWrite, settled, seeded, raised>>

\* ------------------------------------------------------------ specification
Next ==
    \/ ReadProperty
    \/ WriteProperty
    \/ InvokeAction
    \/ FutureSettle
    \/ Resume
    \/ SetActionHandler
    \/ SetPropertyReadHandler
    \/ SetPropertyWriteHandler
    \/ AddProperty
    \/ AddAction
    \/ AddEvent
    \/ RemoveProperty
    \/ RemoveAction
    \/ RemoveEvent
    \/ EmitEvent
    \/ OnEvent
    \/ OnPropertyChange
    \/ OnTdChange
    \/ Subscribe
    \/ Unsubscribe

Spec == Init /\ [][Next]_vars

\* Things an ExposedThing is constructed over in the scenarios below.
ThingP == [n \in Names |-> IF n = "p" THEN Property(TRUE, TRUE) ELSE Absent]
ThingReadOnly == [n \in Names |-> IF n = "p" THEN Property(FALSE, TRUE) ELSE Absent]
ThingAction == [n \in Names |-> IF n = "p" THEN Action ELSE Absent]
ThingPA == [n \in Names |-> IF n = "p" THEN Property(TRUE, TRUE) ELSE Action]
ThingPQ == [n \in Names |-> Property(TRUE, TRUE)]
ThingEvent == [n \in Names |-> IF n = "p" THEN Event ELSE Absent]

\* An application with a single handler function, set globally or for p.
OneHandlerApp == App({"h1"}, {None, "p"}, Values, ArgLists, 1, MaxEvents)
\* An application with two handler functions, one of them falsy, set
\* globally or for any name.
FalsyHandlerApp == App({"h1", "h0"}, Names \cup {None}, Values, ArgLists, MaxSubs, MaxEvents)
\* The handler registry: the three set-handler calls over a Thing that
\* loses interactions.
NextHandlers ==
    \/ SetActionHandler
    \/ SetPropertyReadHandler
    \/ SetPropertyWriteHandler
    \/ RemoveProperty

SpecHandlers == InitWith({ThingP, ThingPA}, {FalsyHandlerApp}) /\ [][NextHandlers]_vars

\* Reads and writes of a property, writable or not, through the default
\* handlers and through a user handler.
NextWrite ==
    \/ ReadProperty
    \/ WriteProperty
    \/ FutureSettle
    \/ Resume
    \/ SetPropertyReadHandler
    \/ SetPropertyWriteHandler

SpecWrite == InitWith({ThingP, ThingReadOnly}, {OneHandlerApp}) /\ [][NextWrite]_vars

\* Invocations through the default handler and through a user handler.
NextInvoke ==
    \/ InvokeAction
    \/ FutureSettle
    \/ Resume
    \/ SetActionHandler

SpecInvoke == InitWith({ThingAction, ThingP}, {OneHandlerApp}) /\ [][NextInvoke]_vars

\* The three calls on names that are not defined, or no longer.
NextNotFound ==
    \/ ReadProperty
    \/ WriteProperty
    \/ InvokeAction
    \/ FutureSettle
    \/ Resume
    \/ SetPropertyWriteHandler
    \/ RemoveProperty

SpecNotFound == InitWith({ThingP}, {OneHandlerApp}) /\ [][NextNotFound]_vars

\* An application with a single handler function that invokes without
\* arguments.
NoArgumentsApp == App({"h1"}, {None, "p"}, Values, {<<>>}, 1, MaxEvents)
\* The three calls with user handlers of the three kinds.
NextCalls ==
    \/ ReadProperty
    \/ WriteProperty
    \/ InvokeAction
    \/ FutureSettle
    \/ Resume
    \/ SetActionHandler
    \/ SetPropertyReadHandler
    \/ SetPropertyWriteHandler

SpecCalls == InitWith({ThingP}, {NoArgumentsApp}) /\ [][NextCalls]_vars

\* An application that installs one handler function, globally, and invokes
\* without arguments.
GlobalHandlerApp == App({"h1"}, {None}, Values, {<<>>}, 1, MaxEvents)
\* Events of every kind on the stream of a Thing with one property: writes
\* and invocations completing in any order, emitted events, description
\* changes, and subscribers of the three kinds of observable.
NextOrder ==
    \/ WriteProperty
    \/ InvokeAction
    \/ FutureSettle
    \/ Resume
    \/ SetPropertyWriteHandler
    \/ SetActionHandler
    \/ EmitEvent
    \/ RemoveProperty
    \/ OnEvent
    \/ OnPropertyChange
    \/ OnTdChange
    \/ Subscribe

SpecOrder == InitWith({ThingP}, {GlobalHandlerApp}) /\ [][NextOrder]_vars

\* Property-change observables of a Thing with two properties, subscribed
\* and unsubscribed while writes, invocations and description changes happen.
NextPropertyChange ==
    \/ WriteProperty
    \/ InvokeAction
    \/ FutureSettle
    \/ Resume
    \/ SetPropertyWriteHandler
    \/ SetActionHandler
    \/ RemoveAction
    \/ OnPropertyChange
    \/ Subscribe
    \/ Unsubscribe

SpecPropertyChange == InitWith({ThingPQ}, {GlobalHandlerApp}) /\ [][NextPropertyChange]_vars

\* Applications that install no handler: one that asks for any number of
\* observables, one that asks for a single one and publishes up to
\* MaxSeedEvents events (a write, a remove and an add).
NoHandlerApp == App({}, {}, Values, {<<>>}, MaxSubs, MaxEvents)
OneObserverApp == App({}, {}, Values, {<<>>}, 1, MaxSeedEvents)
\* Subscribers of event and description-change observables that come and go
\* while an event is emitted and removed.
NextSubscriptions ==
    \/ EmitEvent
    \/ RemoveEvent
    \/ OnEvent
    \/ OnTdChange
    \/ Subscribe
    \/ Unsubscribe

SpecSubscriptions == InitWith({ThingEvent}, {NoHandlerApp}) /\ [][NextSubscriptions]_vars

\* An event that is added, emitted, subscribed to and removed.
NextEvents ==
    \/ AddEvent
    \/ RemoveEvent
    \/ EmitEvent
    \/ OnEvent
    \/ Subscribe

SpecEvents == InitWith({ThingEvent}, {NoHandlerApp}) /\ [][NextEvents]_vars

\* Things with an observable property and an action, and with a property
\* that is not observable.
ThingNotObservable == [n \in Names |-> IF n = "p" THEN Property(TRUE, FALSE) ELSE Absent]

\* Property-change and description-change observables asked for names of
\* every sort, while properties are written and removed.
NextObservables ==
    \/ OnPropertyChange
    \/ OnTdChange
    \/ Subscribe
    \/ WriteProperty
    \/ RemoveProperty

SpecObservables == InitWith({ThingPA, ThingNotObservable}, {NoHandlerApp}) /\ [][NextObservables]_vars

\* The six operations that change the Thing's description, with a
\* subscriber to the description changes.
NextDescription ==
    \/ AddProperty
    \/ AddAction
    \/ AddEvent
    \/ RemoveProperty
    \/ RemoveAction
    \/ RemoveEvent
    \/ OnTdChange
    \/ Subscribe

ThingEmpty == [n \in Names |-> Absent]

SpecDescription == InitWith({ThingEmpty, ThingP}, {NoHandlerApp}) /\ [][NextDescription]_vars

\* A property that is written, read, removed and added again with an
\* initial value, with a subscriber to the description changes.
NextSeed ==
    \/ AddProperty
    \/ RemoveProperty
    \/ WriteProperty
    \/ ReadProperty
    \/ OnTdChange
    \/ Subscribe

SpecSeed == InitWith({ThingP}, {OneObserverApp}) /\ [][NextSeed]_vars

\* Writes through the default handler, issued while reads through a user
\* handler are waiting on their futures.
NextWrites ==
    \/ WriteProperty
    \/ ReadProperty
    \/ SetPropertyReadHandler
    \/ FutureSettle
    \/ Resume

SpecWrites == InitWith({ThingPQ}, {OneHandlerApp}) /\ [][NextWrites]_vars

\* The three set-handler calls on a property that is defined and then
\* removed, and on a name that never was defined.
SpecSetHandlers == InitWith({ThingP}, {AnyApp}) /\ [][NextHandlers]_vars

\* Interactions that are given overrides and values and then removed.
NextRemove ==
    \/ RemoveProperty
    \/ RemoveAction
    \/ RemoveEvent
    \/ SetPropertyReadHandler
    \/ WriteProperty

\* An application with a single handler function, set globally or for any
\* name.
AnyNameApp == App({"h1"}, Names \cup {None}, Values, {<<>>}, 1, MaxEvents)
SpecRemove == InitWith({ThingPA}, {AnyNameApp}) /\ [][NextRemove]_vars

\* Properties added, written, read and removed with the default handlers
\* in effect.
NextDefault ==
    \/ WriteProperty
    \/ ReadProperty
    \/ AddProperty
    \/ RemoveProperty

SpecDefault == InitWith({ThingP, ThingPQ}, {NoHandlerApp}) /\ [][NextDefault]_vars

\* The three remove operations called with any name on a Thing with a
\* property and an action, with subscribers to the description changes.
NextRemoveAny ==
    \/ RemoveProperty
    \/ RemoveAction
    \/ RemoveEvent
    \/ OnTdChange
    \/ Subscribe

SpecRemoveAny == InitWith({ThingPA}, {NoHandlerApp}) /\ [][NextRemoveAny]_vars

\* ================================================================= claims
\* The call appended by the step, when the step starts a call.
StartsCall == Len(calls') = Len(calls) + 1
Started == calls'[Len(calls')]

CallsOf(op) == {c \in DOMAIN calls : calls[c].op = op}
EventsNamed(name) == {i \in DOMAIN events : events[i].name = name}

\* C1: whatever set-handler calls were made, for the kinds retrieve_property,
\* update_property and invoke_action, _get_handler(kind, I) is the
\* handler of the last override set for exactly (kind, I) if there was one,
\* and otherwise the handler of the last global set for kind, or the default
\* seeded by __init__ if there was none; it is always some handler. The
\* "or" of _get_handler breaks it for an override whose truth value is false:
\* the global handler is returned in its place.
C1_HandlerResolution ==
    \A k \in HandlerKeys \ {OBSERVE}, n \in Names :
        /\ GetHandler(k, n) =
              IF lastOverride[k][n] # NoHandler THEN lastOverride[k][n]
              ELSE IF lastGlobal[k] # NoHandler THEN lastGlobal[k]
              ELSE DefaultHandler(k)
        /\ GetHandler(k, n) \in Handlers

\* C2: a read_property of P through the default handler, after a successful
\* write_property(P, v) through the default handler with no other write to P
\* since, resolves to v.
C2_WriteThenRead ==
    [][ (/\ StartsCall
         /\ Started.op = "read"
         /\ Started.handler = DefaultHandler(RETRIEVE_PROPERTY)
         /\ lastWrite[Started.name] # Unknown)
        => (/\ Started.status = "resolved"
            /\ Started.result = lastWrite[Started.name]) ]_vars

\* A write of v2 to p through the default handler and then a read of p
\* through the default handler, which resolved to v2.
C2_Witness ==
    /\ Len(calls) = 2
    /\ calls[1].op = "write"
    /\ calls[1].name = "p"
    /\ calls[1].arg = "v2"
    /\ calls[1].handler = DefaultHandler(UPDATE_PROPERTY)
    /\ calls[1].status = "resolved"
    /\ calls[2].op = "read"
    /\ calls[2].name = "p"
    /\ calls[2].handler = DefaultHandler(RETRIEVE_PROPERTY)
    /\ calls[2].result = "v2"

\* C3: write_property on a property that is not writable fails with
\* NotWritableError before the handler is resolved: no handler is invoked,
\* the stored values do not change and nothing is published.
C3_NotWritable ==
    [][ (/\ StartsCall
         /\ Started.op = "write"
         /\ interactions[Started.name].kind = "property"
         /\ ~interactions[Started.name].writable)
        => (/\ Started.status = "rejected"
            /\ Started.result = NotWritableError
            /\ Started.handler = NoHandler
            /\ Started.invoked = 0
            /\ propertyValues' = propertyValues
            /\ events' = events
            /\ subs' = subs) ]_vars

\* A write rejected as not writable although a user handler is set both as
\* the override of the property and as the global update handler.
C3_Witness ==
    \E c \in CallsOf("write") :
        /\ calls[c].result = NotWritableError
        /\ ~interactions[calls[c].name].writable
        /\ handlers[UPDATE_PROPERTY][calls[c].name] = "h1"
        /\ handlersGlobal[UPDATE_PROPERTY] = "h1"

\* C4: a write_property call has one PropertyChange event {name, value} on
\* the stream once it has resolved, which it does only after its handler's
\* future succeeded; it has none while that future is pending or when it
\* failed; the stream holds no other PropertyChange event.
C4_PublishAfterSuccess ==
    /\ \A c \in CallsOf("write") :
          IF calls[c].status = "resolved"
          THEN /\ calls[c].hstate = "ok"
               /\ calls[c].evIdx \in DOMAIN events
               /\ events[calls[c].evIdx] =
                     [name |-> PROPERTY_CHANGE,
                      data |-> [name |-> calls[c].name, value |-> calls[c].arg]]
          ELSE calls[c].evIdx = 0
    /\ \A c, d \in CallsOf("write") :
          (c # d /\ calls[c].evIdx # 0) => calls[c].evIdx # calls[d].evIdx
    /\ Cardinality(EventsNamed(PROPERTY_CHANGE)) =
          Cardinality({c \in CallsOf("write") : calls[c].status = "resolved"})

\* One write still waiting on its handler's pending future with nothing on
\* the stream for it, and another whose handler's future was resolved later
\* and whose event is on the stream.
C4_Witness ==
    \E c, d \in CallsOf("write") :
        /\ calls[c].status = "suspended"
        /\ calls[c].hstate = "pending"
        /\ calls[d].handler = "h1"
        /\ calls[d].status = "resolved"
        /\ d < c
        /\ calls[d].evIdx = 1
        /\ Len(events) = 1

\* C5: with the default invoke handler, invoke_action fails with
\* UndefinedActionHandlerError whatever the arguments, and publishes nothing.
C5_DefaultInvokeFails ==
    \A c \in CallsOf("invoke") :
        calls[c].handler = DefaultHandler(INVOKE_ACTION)
        => /\ calls[c].status = "rejected"
           /\ calls[c].result = UndefinedActionHandlerError
           /\ calls[c].evIdx = 0

\* C6: an invoke_action call whose handler's future succeeded with r, once
\* it has run on, is resolved with r and has one ActionInvocation event
\* {action_name, return_value: r} on the stream, there no later than the
\* caller's future is resolved; the stream holds no other such event.
C6_InvokePublishes ==
    /\ \A c \in CallsOf("invoke") :
          /\ (calls[c].hstate = "ok" /\ calls[c].status # "suspended")
             => /\ calls[c].status = "resolved"
                /\ calls[c].result = calls[c].hval
          /\ IF calls[c].status = "resolved"
             THEN /\ calls[c].hstate = "ok"
                  /\ calls[c].evIdx \in DOMAIN events
                  /\ events[calls[c].evIdx] =
                        [name |-> ACTION_INVOCATION,
                         data |-> [action_name |-> calls[c].name,
                                   return_value |-> calls[c].result]]
             ELSE calls[c].evIdx = 0
    /\ \A c, d \in CallsOf("invoke") :
          (c # d /\ calls[c].evIdx # 0) => calls[c].evIdx # calls[d].evIdx
    /\ Cardinality(EventsNamed(ACTION_INVOCATION)) =
          Cardinality({c \in CallsOf("invoke") : calls[c].status = "resolved"})

\* Two invocations through a user handler resolved with r1, each with its
\* event on the stream.
C6_Witness ==
    /\ Len(events) = 2
    /\ \E c, d \in CallsOf("invoke") :
          /\ c # d
          /\ calls[c].status = "resolved"
          /\ calls[d].status = "resolved"
          /\ calls[c].result = "r1"
          /\ calls[c].arg = <<"v1">>

\* C7: read_property, write_property and invoke_action on a name that is
\* not defined when the call is made fail with NotFoundError before any
\* handler is resolved or invoked; the stored values do not change and
\* nothing is published.
C7_NotFound ==
    [][ (StartsCall /\ ~Defined(Started.name))
        => (/\ Started.status = "rejected"
            /\ Started.result = NotFoundError
            /\ Started.handler = NoHandler
            /\ Started.invoked = 0
            /\ propertyValues' = propertyValues
            /\ events' = events
            /\ subs' = subs) ]_vars

\* A call failed as not found on p, which was defined, written and given a
\* write handler override before it was removed.
C7_Witness ==
    /\ ~Defined("p")
    /\ propertyValues["p"] \in Values
    /\ handlers[UPDATE_PROPERTY]["p"] = "h1"
    /\ Len(calls) = 2
    /\ calls[1].name = "p"
    /\ calls[1].status = "resolved"
    /\ calls[2].name = "p"
    /\ calls[2].result = NotFoundError

\* C8: a call that passed the facade's checks has invoked its handler
\* exactly once (a call that did not, never); when the handler's future
\* failed with e the caller's future is failed with e, or the call is
\* scheduled to run on; and a failed caller's future never changes again.
C8_HandlerOnceErrorUnmodified ==
    /\ [](\A c \in DOMAIN calls :
            /\ calls[c].invoked = IF calls[c].handler = NoHandler THEN 0 ELSE 1
            /\ calls[c].hstate = "err"
               => IF calls[c].status = "suspended"
                  THEN \E i \in DOMAIN ioloop : ioloop[i] = c
                  ELSE /\ calls[c].status = "rejected"
                       /\ calls[c].result = calls[c].hval)
    /\ [][\A c \in DOMAIN calls :
            calls[c].status = "rejected" => calls'[c] = calls[c]]_vars

\* A read and a write through user handlers whose futures failed: one call
\* has failed with the handler's error, the other is scheduled to.
C8_Witness ==
    /\ \E c \in DOMAIN calls :
          /\ calls[c].handler = "h1"
          /\ calls[c].result = "HandlerError"
          /\ calls[c].status = "rejected"
    /\ \E c \in DOMAIN calls :
          /\ calls[c].handler = "h1"
          /\ calls[c].hstate = "err"
          /\ calls[c].status = "suspended"
    /\ {calls[c].op : c \in DOMAIN calls} = {"read", "write"}

\* The positions of the stream a subscriber was attached for.
Window(s) ==
    CASE s.state = "attached" -> (s.attachedAt + 1)..Len(events)
      [] s.state = "disposed" -> (s.attachedAt + 1)..s.detachedAt
      [] OTHER -> {}

Before(seq, a, b) ==
    \E i, j \in DOMAIN seq : i < j /\ seq[i] = a /\ seq[j] = b

\* C9: events of every kind go onto one stream, which only grows at its
\* end; of two write / invoke calls started in order c1, c2 whose handlers'
\* futures succeeded in order c2, c1, the event of c1 is on the stream only
\* after the event of c2; and every subscriber has received exactly the
\* events matching its filter that were published while it was attached, in
\* the order of the stream.
C9_CompletionOrder ==
    /\ [](/\ \A c1, c2 \in DOMAIN calls :
               (c1 < c2 /\ Before(settled, c2, c1) /\ calls[c1].evIdx # 0)
               => (calls[c2].evIdx # 0 /\ calls[c2].evIdx < calls[c1].evIdx)
          /\ \A k \in DOMAIN subs :
               subs[k].received =
                   SelectSeq([i \in DOMAIN events |-> i],
                             LAMBDA i : i \in Window(subs[k])
                                        /\ Matches(subs[k], events[i])))
    /\ [][Len(events') >= Len(events)
          /\ SubSeq(events', 1, Len(events)) = events]_vars

\* Two writes to p started in order 1, 2 whose handlers' futures succeeded
\* in order 2, 1: the event of the second is first on the stream and the
\* subscriber to the changes of p received the two in that order.
C9_Witness ==
    /\ Len(calls) = 2
    /\ calls[1].op = "write"
    /\ calls[2].op = "write"
    /\ calls[1].arg # calls[2].arg
    /\ settled = <<2, 1>>
    /\ calls[2].evIdx = 1
    /\ calls[1].evIdx = 2
    /\ events[1].data.value = calls[2].arg
    /\ events[2].data.value = calls[1].arg
    /\ \E k \in DOMAIN subs :
          /\ subs[k].op = "on_property_change"
          /\ subs[k].received = <<1, 2>>

\* How many times a subscriber received the event at a position.
TimesReceived(s, i) == Cardinality({j \in DOMAIN s.received : s.received[j] = i})

\* C10: a subscriber of on_property_change(P) has received, for each
\* successful write_property(P, v) whose event was published while it was
\* attached, that event {name: P, value: v} exactly once; it has received
\* nothing else: no change of another property, no action invocation, no
\* description change, and nothing published before it was attached or
\* after it was unsubscribed.
C10_PropertyChangeSubscription ==
    \A k \in DOMAIN subs :
        (subs[k].op = "on_property_change" /\ subs[k].error = None)
        => /\ \A c \in CallsOf("write") :
                 (calls[c].name = subs[k].name /\ calls[c].status = "resolved")
                 => /\ calls[c].evIdx \in DOMAIN events
                    /\ events[calls[c].evIdx] =
                          [name |-> PROPERTY_CHANGE,
                           data |-> [name |-> subs[k].name, value |-> calls[c].arg]]
                    /\ TimesReceived(subs[k], calls[c].evIdx) =
                          IF calls[c].evIdx \in Window(subs[k]) THEN 1 ELSE 0
           /\ \A j \in DOMAIN subs[k].received :
                 \E c \in CallsOf("write") :
                    /\ calls[c].name = subs[k].name
                    /\ calls[c].status = "resolved"
                    /\ calls[c].evIdx = subs[k].received[j]
                    /\ calls[c].evIdx \in Window(subs[k])

\* A subscriber to the changes of p that received the event of a write of
\* v2 to p, was unsubscribed while a second write to p waited on its
\* handler's future, and received nothing for that one when it completed.
C10_Witness ==
    \E k \in DOMAIN subs :
        /\ subs[k].op = "on_property_change"
        /\ subs[k].name = "p"
        /\ subs[k].state = "disposed"
        /\ subs[k].detachedAt = 1
        /\ subs[k].received = <<1>>
        /\ Len(events) = 2
        /\ events[1] = [name |-> PROPERTY_CHANGE, data |-> [name |-> "p", value |-> "v2"]]
        /\ events[2] = [name |-> PROPERTY_CHANGE, data |-> [name |-> "p", value |-> "v1"]]
        /\ \E c \in CallsOf("write") : calls[c].evIdx = 2 /\ calls[c].status = "resolved"

\* The predicate an observable was asked for, by the operation that made it.
Predicate(s, item) ==
    CASE s.op = "on_event" -> item.name = s.name
      [] s.op = "on_property_change" ->
            item.name = PROPERTY_CHANGE /\ item.data.name = s.name
      [] s.op = "on_td_change" -> item.name = DESCRIPTION_CHANGE

\* C11: every subscriber has received each event that matches its predicate
\* and was published while it was attached exactly once, whatever other
\* subscribers match the same event, and no other event; unsubscribing one
\* subscriber changes nothing of any other, and what a subscriber has
\* received only grows at its end.
C11_IndependentSubscriptions ==
    /\ [](\A k \in DOMAIN subs : \A i \in DOMAIN events :
            subs[k].error = None
            => TimesReceived(subs[k], i) =
                  IF i \in Window(subs[k]) /\ Predicate(subs[k], events[i])
                  THEN 1 ELSE 0)
    /\ [][\A k \in DOMAIN subs :
            /\ (subs[k].state = "attached" /\ subs'[k].state = "disposed")
               => \A j \in DOMAIN subs : j # k => subs'[j] = subs[j]
            /\ Len(subs'[k].received) >= Len(subs[k].received)
            /\ SubSeq(subs'[k].received, 1, Len(subs[k].received)) = subs[k].received]_vars

\* Two subscribers to the event p that both received the first emission;
\* the first was then unsubscribed and the second went on to receive the
\* next one.
C11_Witness ==
    /\ Len(subs) = 2
    /\ subs[1].op = "on_event"
    /\ subs[2].op = "on_event"
    /\ subs[1].state = "disposed"
    /\ subs[1].received = <<1>>
    /\ subs[2].state = "attached"
    /\ subs[2].received = <<1, 2>>

\* The observable appended by the step, when the step makes one.
MakesObservable == Len(subs') = Len(subs) + 1
Made == subs'[Len(subs')]

\* C12: on_event(name) for a name that is not defined when it is called
\* gives an observable that fails its subscriber with UnknownEventError on
\* subscription and is never attached to the stream: it receives nothing,
\* whatever is published afterwards; for a defined name it gives a filter
\* on the stream.
C12_UnknownEvent ==
    /\ [][(MakesObservable /\ Made.op = "on_event")
          => IF Defined(Made.name)
             THEN Made.filter = "event" /\ Made.error = None
             ELSE Made.filter = "throw" /\ Made.error = UnknownEventError]_vars
    /\ [](\A k \in DOMAIN subs :
            (subs[k].op = "on_event" /\ subs[k].error # None)
            => /\ subs[k].error = UnknownEventError
               /\ subs[k].state \in {"created", "errored"}
               /\ subs[k].state = "errored" => subs[k].failed = UnknownEventError
               /\ subs[k].received = <<>>)

\* The event p was subscribed to and emitted, then removed: the on_event(p)
\* that followed failed its subscriber with UnknownEventError, while the
\* earlier subscriber holds the emission it received.
C12_Witness ==
    /\ Len(subs) = 2
    /\ subs[1].op = "on_event"
    /\ subs[1].name = "p"
    /\ subs[1].received = <<1>>
    /\ subs[2].op = "on_event"
    /\ subs[2].name = "p"
    /\ subs[2].state = "errored"
    /\ subs[2].failed = UnknownEventError
    /\ Len(events) = 2
    /\ events[1].name = "p"
    /\ events[2].name = DESCRIPTION_CHANGE
    /\ events[2].data.method = "remove"
    /\ ~Defined("p")

\* C13: on_property_change(name) fails with UnknownPropertyError when no
\* property named name exists and with NotObservableError when the property
\* exists and is not observable; a subscriber of a failed one never
\* receives anything; on_td_change never fails.
C13_PropertyChangeErrors ==
    /\ [][(MakesObservable /\ Made.op = "on_property_change")
          => IF interactions[Made.name].kind # "property"
             THEN Made.error = UnknownPropertyError
             ELSE IF ~interactions[Made.name].observable
             THEN Made.error = NotObservableError
             ELSE Made.error = None]_vars
    /\ [](\A k \in DOMAIN subs :
            /\ (subs[k].op = "on_property_change" /\ subs[k].error # None)
               => (subs[k].received = <<>> /\ subs[k].state # "attached")
            /\ subs[k].op = "on_td_change" => subs[k].error = None)

\* The event appended by the step, when the step publishes exactly one.
PublishesOne == Len(events') = Len(events) + 1 /\ SubSeq(events', 1, Len(events)) = events
Published == events'[Len(events')]

\* The step added an interaction of the kind under a free name and published
\* the add event of that kind and name, with data and with the description
\* of the Thing as it is after the step.
AddedAndPublished(kind) ==
    \E name \in Names :
        /\ ~Defined(name)
        /\ interactions'[name].kind = kind
        /\ \A n \in Names \ {name} : interactions'[n] = interactions[n]
        /\ PublishesOne
        /\ Published.name = DESCRIPTION_CHANGE
        /\ DOMAIN Published.data =
              {"td_change_type", "method", "name", "data", "description"}
        /\ Published.data.td_change_type = kind
        /\ Published.data.method = "add"
        /\ Published.data.name = name
        /\ Published.data.description =
              {<<n, interactions'[n].kind>> : n \in {m \in Names : interactions'[m].kind # "none"}}
        /\ <<name, kind>> \in Published.data.description

\* The step removed the name from the Thing and published the remove event
\* of the kind and name, without data and description.
RemovedAndPublished(kind) ==
    \E name \in Names :
        /\ interactions'[name].kind = "none"
        /\ \A n \in Names \ {name} : interactions'[n] = interactions[n]
        /\ PublishesOne
        /\ Published.name = DESCRIPTION_CHANGE
        /\ DOMAIN Published.data = {"td_change_type", "method", "name"}
        /\ Published.data.td_change_type = kind
        /\ Published.data.method = "remove"
        /\ Published.data.name = name

\* C14: each add_property / add_action / add_event and remove_property /
\* remove_action / remove_event call changes the Thing and publishes, within
\* the call, exactly one DescriptionChange event whose change type is the
\* kind of the operation, whose method is add or remove and whose name is
\* the name given; an add event carries data and the description of the
\* Thing after the addition, a remove event carries neither.
C14_DescriptionChange ==
    [][ /\ AddProperty => AddedAndPublished("property")
        /\ AddAction => AddedAndPublished("action")
        /\ AddEvent => AddedAndPublished("event")
        /\ RemoveProperty => RemovedAndPublished("property")
        /\ RemoveAction => RemovedAndPublished("action")
        /\ RemoveEvent => RemovedAndPublished("event") ]_vars

\* An action q was added to a Thing that had the property p, and then
\* removed: the add event describes both, the remove event names q alone.
C14_Witness ==
    /\ Len(events) = 2
    /\ events[1].data.method = "add"
    /\ events[1].data.td_change_type = "action"
    /\ events[1].data.name = "q"
    /\ events[1].data.description = {<<"p", "property">>, <<"q", "action">>}
    /\ events[2].data.method = "remove"
    /\ events[2].data.td_change_type = "action"
    /\ events[2].data.name = "q"
    /\ \E k \in DOMAIN subs : subs[k].op = "on_td_change" /\ subs[k].received = <<1, 2>>

\* C15: a read_property of P through the default handler, after an
\* add_property of P with initial value v0 and no write to P since,
\* resolves to v0, whatever happened to the name P before; and the
\* add_property call hands every attached on_td_change subscriber exactly
\* one event, with method add and the name P.
C15_AddPropertySeeds ==
    /\ [][ (/\ StartsCall
             /\ Started.op = "read"
             /\ Started.handler = DefaultHandler(RETRIEVE_PROPERTY)
             /\ seeded[Started.name] # Unknown)
            => (/\ Started.status = "resolved"
                /\ Started.result = seeded[Started.name]) ]_vars
    /\ [][ AddProperty
            => \E name \in Names :
                 /\ ~Defined(name)
                 /\ interactions'[name].kind = "property"
                 /\ PublishesOne
                 /\ Published.data.method = "add"
                 /\ Published.data.name = name
                 /\ \A k \in DOMAIN subs :
                       (subs[k].op = "on_td_change" /\ subs[k].state = "attached")
                       => subs'[k].received = Append(subs[k].received, Len(events')) ]_vars

\* The property p, defined from the start, was written with v1 through the
\* default handler, removed and added again with initial value v2; the read
\* that followed resolved to v2, not to the v1 stored before, and the
\* subscriber to the description changes received the add event once.
C15_Witness ==
    /\ Len(events) = 3
    /\ events[1].name = PROPERTY_CHANGE
    /\ events[1].data.name = "p"
    /\ events[1].data.value = "v1"
    /\ events[2].name = DESCRIPTION_CHANGE
    /\ events[2].data.method = "remove"
    /\ events[2].data.name = "p"
    /\ events[3].name = DESCRIPTION_CHANGE
    /\ events[3].data.method = "add"
    /\ events[3].data.name = "p"
    /\ seeded["p"] = "v2"
    /\ \E c \in CallsOf("write") :
          /\ calls[c].name = "p"
          /\ calls[c].arg = "v1"
          /\ calls[c].handler = DefaultHandler(UPDATE_PROPERTY)
          /\ calls[c].status = "resolved"
    /\ \E c \in CallsOf("read") :
          /\ calls[c].name = "p"
          /\ calls[c].handler = DefaultHandler(RETRIEVE_PROPERTY)
          /\ calls[c].result = "v2"
    /\ \E k \in DOMAIN subs :
          /\ subs[k].op = "on_td_change"
          /\ subs[k].attachedAt = 2
          /\ subs[k].received = <<3>>

\* The write calls on a property that went through the default handler.
DefaultWrites(n) ==
    {c \in CallsOf("write") : calls[c].name = n
                               /\ calls[c].handler = DefaultHandler(UPDATE_PROPERTY)}

Latest(S) == CHOOSE c \in S : \A d \in S : d <= c

\* C16: with the default write handler in effect, after any number of
\* write_property calls on a property the stored value is the value of the
\* write made last; every one of the writes has resolved, none failed or
\* is held back, and each has its own PropertyChange event on the stream.
C16_LastWriteWins ==
    \A n \in Names :
        DefaultWrites(n) # {}
        => /\ propertyValues[n] = calls[Latest(DefaultWrites(n))].arg
           /\ \A c \in DefaultWrites(n) :
                 /\ calls[c].status = "resolved"
                 /\ calls[c].evIdx \in DOMAIN events
                 /\ events[calls[c].evIdx] =
                       [name |-> PROPERTY_CHANGE,
                        data |-> [name |-> n, value |-> calls[c].arg]]
           /\ \A c, d \in DefaultWrites(n) : c < d => calls[c].evIdx < calls[d].evIdx

\* Two writes to p, of v1 and then of v2: v2 is stored and each write has
\* its event.
C16_Witness ==
    /\ DefaultWrites("p") = {1, 2}
    /\ calls[1].arg = "v1"
    /\ calls[2].arg = "v2"
    /\ propertyValues["p"] = "v2"
    /\ Len(events) = 2

\* C17: a set_action_handler / set_property_read_handler /
\* set_property_write_handler call with a name that is not defined raises
\* the not-found error and leaves the global handlers and the overrides as
\* they were; a call without a name returns, replaces the global handler of
\* its own kind and leaves every override and the global handlers of the
\* other kinds as they were.
C17_SetHandlerErrorsAndFrame ==
    [][ \A k \in HandlerKeys \ {OBSERVE}, h \in UserHandlers \cup FalsyHandlers,
           n \in Names \cup {None} :
          SetHandlerCall(k, h, n)
          => IF n # None /\ ~Defined(n)
             THEN /\ raised' = NotFoundError
                  /\ handlersGlobal' = handlersGlobal
                  /\ handlers' = handlers
             ELSE IF n = None
             THEN /\ raised' = None
                  /\ handlersGlobal'[k] = h
                  /\ DOMAIN handlersGlobal' = DOMAIN handlersGlobal
                  /\ \A j \in DOMAIN handlersGlobal \ {k} :
                        handlersGlobal'[j] = handlersGlobal[j]
                  /\ handlers' = handlers
             ELSE raised' = None ]_vars

\* A set-handler call for p has just failed as not found, p having been
\* removed; the override h2 set for p earlier and the global h1 of that
\* kind are in the tables as before.
C17_Witness ==
    /\ raised = NotFoundError
    /\ ~Defined("p")
    /\ \E k \in DOMAIN handlers :
          /\ handlers[k]["p"] = "h2"
          /\ handlersGlobal[k] = "h1"
          /\ \E j \in DOMAIN handlersGlobal \ {k} : handlersGlobal[j] = DefaultHandler(j)

\* C18: remove_property, remove_action and remove_event leave the
\* overrides, the global handlers and the stored property values as they
\* were; they change the Thing's interactions and the stream only.
C18_RemoveFrame ==
    [][ (RemoveProperty \/ RemoveAction \/ RemoveEvent)
        => /\ handlers' = handlers
           /\ handlersGlobal' = handlersGlobal
           /\ propertyValues' = propertyValues
           /\ calls' = calls
           /\ ioloop' = ioloop
           /\ Len(events') = Len(events) + 1 ]_vars

\* The property p was given a read override and the value v2 and then
\* removed: the override and the value are still in the tables.
C18_Witness ==
    /\ ~Defined("p")
    /\ handlers[RETRIEVE_PROPERTY]["p"] = "h1"
    /\ handlersGlobal[RETRIEVE_PROPERTY] = DefaultHandler(RETRIEVE_PROPERTY)
    /\ propertyValues["p"] = "v2"
    /\ \E i \in DOMAIN events :
          /\ events[i].name = DESCRIPTION_CHANGE
          /\ events[i].data.method = "remove"
          /\ events[i].data.name = "p"

\* The positions on the stream of the PropertyChange events of a property
\* and of the DescriptionChange events that added it.
ChangesOf(n) ==
    {i \in DOMAIN events : events[i].name = PROPERTY_CHANGE /\ events[i].data.name = n}
AddsOf(n) ==
    {i \in DOMAIN events : /\ events[i].name = DESCRIPTION_CHANGE
                            /\ events[i].data.method = "add"
                            /\ events[i].data.name = n}

\* C19: with the default handlers in effect, for every defined property
\* that was written since it was last added, the stored value is the value
\* of the last PropertyChange event published for it.
C19_StoreMatchesLastEvent ==
    \A n \in Names :
        (/\ Defined(n)
         /\ interactions[n].kind = "property"
         /\ ChangesOf(n) # {}
         /\ \A a \in AddsOf(n) : a < Latest(ChangesOf(n)))
        => propertyValues[n] = events[Latest(ChangesOf(n))].data.value

\* The property q was added with initial value v1 and then written with
\* v2: v2 is stored and is the value of the last event; p was not written.
C19_Witness ==
    /\ AddsOf("q") = {1}
    /\ events[1].data.data.value = "v1"
    /\ ChangesOf("q") = {2}
    /\ events[2].data.value = "v2"
    /\ propertyValues["q"] = "v2"
    /\ propertyValues["p"] = None

\* The kinds of the three remove operations.
RemoveKinds == {"property", "action", "event"}

\* C20: in every state, whatever the name refers to (an interaction of the
\* kind of the operation, one of another kind, or none), a remove_property
\* / remove_action / remove_event call can be made and publishes the remove
\* event whose change type is the kind of the operation called and whose
\* name is the name given.
C20_RemoveUnconditional ==
    CanPublish
    => \A t \in RemoveKinds, n \in Names :
          ENABLED (/\ RemoveCall("remove_" \o t, t, n)
                   /\ events' = Append(events,
                         [name |-> DESCRIPTION_CHANGE,
                          data |-> [td_change_type |-> t, method |-> "remove",
                                    name |-> n]]))

\* remove_property was called on q, which was an action, and remove_event
\* on q again, which was then not defined: both events are on the stream,
\* each of the kind of the operation called.
C20_Witness ==
    /\ Len(events) = 2
    /\ events[1].data.td_change_type = "property"
    /\ events[1].data.method = "remove"
    /\ events[1].data.name = "q"
    /\ events[2].data.td_change_type = "event"
    /\ events[2].data.method = "remove"
    /\ events[2].data.name = "q"
    /\ interactions["p"].kind = "property"
====
